---- MODULE Spec2Model ----
(***************************************************************************)
(* Model of the sncast script runner (crates/sncast/.../script/run.rs):    *)
(* the run() driver, the CastScriptExtension cheat dispatcher              *)
(* (handle_cheatcode / override_system_call), the transaction ledger       *)
(* (StateManager) it consults and the tokio bridge (block_on) it blocks on.*)
(***************************************************************************)
EXTENDS Integers, Sequences, FiniteSets, TLC

\* ------------------------------------------------------------------ bounds
\* Number of hints (cheat calls or system calls) the VM fires in one run.
MaxCalls == 2

\* ------------------------------------------------------------ input domains
Felt == {0, 1}
Calldata == {<<>>, <<1>>}
\* Contract identifiers, as the byte strings of their names.
Contracts == {<<1>>, <<1, 0, 1>>}
\* Success payloads the client may answer with, and its failure payload.
Outputs == {"r1", "r2"}
ErrorPayload == "error"
NetResults == [ok : {TRUE}, val : Outputs] \cup [ok : {FALSE}, val : {ErrorPayload}]

MutatingSelectors == {"declare", "deploy", "invoke"}
ReadOnlySelectors == {"call", "get_nonce", "tx_status"}
UnknownSelectors == {"other"}
\* Variant of KnownSelectors: a catch-all arm handles every selector.
KnownSelectorsCatchAll == MutatingSelectors \cup ReadOnlySelectors \cup UnknownSelectors
\* The selectors handle_cheatcode has an arm for.
KnownSelectors == MutatingSelectors \cup ReadOnlySelectors

\* The fingerprinted parameters of the three mutating cheats, in the order
\* the handler decodes them.
DeclareKeys == {<<c>> : c \in Contracts}
DeployKeys == {<<ch, cd, salt, unique>> :
                 ch \in Felt, cd \in Calldata, salt \in Felt, unique \in BOOLEAN}
InvokeKeys == {<<addr, sel, cd>> : addr \in Felt, sel \in Felt, cd \in Calldata}
MutatingCalls == [selector : {"declare"}, key : DeclareKeys]
                   \cup [selector : {"deploy"}, key : DeployKeys]
                   \cup [selector : {"invoke"}, key : InvokeKeys]
ReadOnlyCalls == [selector : ReadOnlySelectors \cup UnknownSelectors, key : {<<>>}]

\* Reference actions, one of each kind, with the same raw parameter bytes.
BaseCalls == {[selector |-> "declare", key |-> <<(<<1, 0, 1>>)>>],
              [selector |-> "deploy", key |-> <<1, <<>>, 0, TRUE>>],
              [selector |-> "invoke", key |-> <<1, 0, <<1>>>>]}

\* The mutating cheat call sites a compiled script contains: none, a
\* reference action, or a reference action and either another reference
\* action or any action of its own kind.
SameKind(b) == {c \in MutatingCalls : c.selector = b.selector}
Scripts ==
    {{}} \cup UNION {{{b, c} : c \in BaseCalls \cup SameKind(b)} : b \in BaseCalls}

\* fee_args and nonce, the two arguments every mutating arm decodes after
\* the fingerprinted ones: a fee setting and an optional nonce.
TxOptions == [fee_args : {0, 1}, nonce : {<<>>, <<1>>}]
DefaultOptions == [fee_args |-> 0, nonce |-> <<>>]
NoOptions == [fee_args |-> 0, nonce |-> <<0>>]

\* ---------------------------------------------------------------- helpers
BoolByte(b) == IF b THEN 1 ELSE 0

\* Number of typed arguments the arm of a selector reads from the buffer.
ArgCount(selector) ==
    CASE selector = "call" -> 3
      [] selector = "declare" -> 3
      [] selector = "deploy" -> 6
      [] selector = "invoke" -> 5
      [] selector = "get_nonce" -> 1
      [] selector = "tx_status" -> 1
      [] OTHER -> 0

\* The raw parameter bytes of a mutating action.
RawBytes(selector, key) ==
    CASE selector = "declare" -> key[1]
      [] selector = "deploy" -> <<key[1]>> \o key[2] \o <<key[3], BoolByte(key[4])>>
      [] selector = "invoke" -> <<key[1], key[2]>> \o key[3]

\* sncast::state::hashing: identifier of an action from its kind tag and its
\* mutating parameters.
generate_declare_tx_id(contract) == <<"declare">> \o contract

generate_deploy_tx_id(class_hash, constructor_calldata, salt, unique) ==
    <<"deploy", class_hash>> \o constructor_calldata \o <<salt, BoolByte(unique)>>

generate_invoke_tx_id(contract_address, function_selector, calldata) ==
    <<"invoke", contract_address, function_selector>> \o calldata

\* Variant of TxId: the deploy arm passes a constant salt.
TxIdFixedSalt(selector, key) ==
    CASE selector = "declare" -> generate_declare_tx_id(key[1])
      [] selector = "deploy" -> generate_deploy_tx_id(key[1], key[2], 0, key[4])
      [] selector = "invoke" -> generate_invoke_tx_id(key[1], key[2], key[3])
      [] OTHER -> <<>>

\* Variant of TxId: the three arms share one fingerprint function over the
\* raw parameter bytes, without the kind.
TxIdUntagged(selector, key) ==
    IF selector \in MutatingSelectors THEN RawBytes(selector, key) ELSE <<>>

\* Variant of TxId: fee settings and nonce, when decoded, enter the
\* fingerprint.
TxIdWithFee(selector, key) ==
    (CASE selector = "declare" -> generate_declare_tx_id(key[1])
       [] selector = "deploy" -> generate_deploy_tx_id(key[1], key[2], key[3], key[4])
       [] selector = "invoke" -> generate_invoke_tx_id(key[1], key[2], key[3])
       [] OTHER -> <<>>)
    \o (IF selector \in MutatingSelectors /\ Len(key) = ArgCount(selector)
        THEN <<key[Len(key) - 1], key[Len(key)]>>
        ELSE <<>>)

\* The three call sites of the handler (declare_tx_id, deploy_tx_id,
\* invoke_tx_id).
TxId(selector, key) ==
    CASE selector = "declare" -> generate_declare_tx_id(key[1])
      [] selector = "deploy" -> generate_deploy_tx_id(key[1], key[2], key[3], key[4])
      [] selector = "invoke" -> generate_invoke_tx_id(key[1], key[2], key[3])
      [] OTHER -> <<>>

\* ------------------------------------------------------------------ ledger
\* sncast::state::state_file::StateManager: the optional persisted store and
\* the entries loaded from it.
EmptyFile == {}

StateManager_from(state_file_path, f) ==
    IF state_file_path
    THEN [state_file |-> TRUE,
          entries |-> IF f.status = "ok" THEN f.entries ELSE EmptyFile]
    ELSE [state_file |-> FALSE, entries |-> EmptyFile]

HasEntry(st, tx_id) == \E e \in st.entries : e.id = tx_id

get_output_if_success(st, tx_id) ==
    (CHOOSE e \in st.entries : e.id = tx_id).output

maybe_insert_tx_entry(st, tx_id, selector, result) ==
    IF st.state_file /\ result.ok
    THEN [st EXCEPT !.entries =
            @ \cup {[id |-> tx_id, selector |-> selector, output |-> result.val]}]
    ELSE st

\* --------------------------------------------------------------- results
NoRet == [tag |-> "none", ok |-> FALSE, val |-> ""]
Forwarded == [tag |-> "Forwarded", ok |-> FALSE, val |-> ""]
from_serializable(result) == [tag |-> "Handled", ok |-> result.ok, val |-> result.val]
HintErr(msg) == [tag |-> "Err", ok |-> FALSE, val |-> msg]
AccountNotDefined == "Account not defined"

VARIABLES
    script,     \* mutating cheat call sites of the compiled script
    file,       \* the persisted state file: [status, entries]
    pc,         \* "idle" (no run), "vm" (interpreter stepping), "blocked" (in block_on)
    account,    \* CastScriptExtension.account is Some
    state,      \* CastScriptExtension.state (StateManager) of the current run
    inflight,   \* network operations started and not yet resolved
    calls,      \* hints fired in the current run
    cheat,      \* the last cheat invocation: [selector, key]
    reads,      \* arguments read from the buffer by the last cheat call
    hit,        \* the last cheat call was answered from the ledger
    ret,        \* what the last cheat call returned to the VM
    outcome,    \* what the last run() returned
    succeeded,  \* actions a run using the state file submitted with success
    cached,     \* actions whose successful result was written to the state file
    landed,     \* the actions among them that the current run submitted
    entry_code, \* a call of create_entry_code: its inputs and how it ended
    hint_maps,  \* a call of hints_to_params: its input and the two maps
    script_fees, \* fee settings and nonces the script passes to mutating cheats
    options,    \* fee settings and nonce decoded by the last mutating cheat call
    paid,       \* recorded actions with the fee settings and nonce they were sent with
    tree,       \* a rendering of a Trace: the builder, the Nodes alive, the output
    project     \* a call of forge's new(): its arguments, the path, the steps taken

vars == <<script, file, pc, account, state, inflight, calls, cheat, reads, hit,
          ret, outcome, succeeded, cached, landed, entry_code, hint_maps,
          script_fees, options, paid, tree, project>>

NoCheat == [selector |-> "", key |-> <<>>]

\* No call of create_entry_code or hints_to_params is being followed.
NoEntryCode == [ret_types |-> <<>>, finalize_segment_arena |-> FALSE, result |-> "none"]
NoHintMaps == [hints |-> <<>>, done |-> FALSE, hints_dict |-> <<>>, string_to_hint |-> <<>>]

\* StringItem of the tree builder: a text and the children below it.
Item(text, children) == [text |-> text, children |-> children]
\* struct TraceInfo and struct Trace. The field values are fixed, one per
\* field, and the selector and the nested calls vary.
TraceInfoOf(nested_calls) ==
    [entry_point_type |-> "External", calldata |-> "[]",
     storage_address |-> "0x1", caller_address |-> "0x0", call_type |-> "Call",
     nested_calls |-> nested_calls, call_result |-> "Success"]
TraceOf(selector, nested_calls) ==
    [selector |-> selector, trace_info |-> TraceInfoOf(nested_calls)]
\* No Trace is being rendered.
NoTree ==
    [stage |-> "none", trace |-> TraceOf("", <<>>), todo |-> <<>>,
     builder |-> [item |-> Item(<<>>, <<>>), level |-> 0],
     begun |-> 0, ended |-> 0, out |-> Item(<<>>, <<>>)]
\* No project is being created.
NoProject ==
    [pc |-> "none", path |-> "absent", overwrite |-> FALSE, name |-> FALSE,
     file_name |-> FALSE, no_vcs |-> FALSE, template |-> "CairoProgram",
     scarb_manifest |-> FALSE, snfoundry_manifest |-> FALSE,
     effects |-> <<>>, result |-> "none"]

\* What run() returned last: Err, (still running), (never called).
RunErr == [ok |-> FALSE, status |-> "", err |-> "execution failed"]
Running == [ok |-> FALSE, status |-> "running", err |-> ""]
NoRun == [ok |-> FALSE, status |-> "none", err |-> ""]
\* The errors run() returns before the interpreter is started.
FunctionNotFound ==
    [ok |-> FALSE, status |-> "", err |-> "Failed to find main function in script"]
AccountErr == [ok |-> FALSE, status |-> "", err |-> "get_account failed"]
LedgerErr == [ok |-> FALSE, status |-> "", err |-> "state file"]

\* The extension's account and ledger handle once run() has returned.
NoState == [state_file |-> FALSE, entries |-> EmptyFile]

Init ==
    /\ script \in Scripts
    /\ file \in [status : {"missing", "corrupt"}, entries : {EmptyFile}]
    /\ pc = "idle"
    /\ account = FALSE
    /\ state = NoState
    /\ inflight = <<>>
    /\ calls = 0
    /\ cheat = NoCheat
    /\ reads = 0
    /\ hit = FALSE
    /\ ret = NoRet
    /\ outcome = NoRun
    /\ succeeded = {}
    /\ cached = {}
    /\ landed = {}
    /\ entry_code = NoEntryCode
    /\ hint_maps = NoHintMaps
    /\ script_fees = {DefaultOptions}
    /\ tree = NoTree
    /\ project = NoProject
    /\ options = NoOptions
    /\ paid = {}

\* --------------------------------------------------------- run() start-up
\* Variant of OpenLedger: a file that does not parse is an error.
OpenLedgerStrict(state_file_path, f) ==
    [ok |-> ~(state_file_path /\ f.status = "corrupt"),
     state |-> StateManager_from(state_file_path, f)]

\* let state = StateManager::from(state_file_path)?;
OpenLedger(state_file_path, f) ==
    [ok |-> TRUE, state |-> StateManager_from(state_file_path, f)]

\* Variant of SetupError: the account is loaded before the function lookup.
SetupErrorAccountFirst(found, acct, state_file_path, f) ==
    IF acct = "failed" THEN AccountErr
    ELSE IF ~found THEN FunctionNotFound
    ELSE IF ~OpenLedger(state_file_path, f).ok THEN LedgerErr
    ELSE Running

\* The ? operators of run() in their order: find_function, get_account,
\* StateManager::from. Running when none of them returns.
SetupError(found, acct, state_file_path, f) ==
    IF ~found THEN FunctionNotFound
    ELSE IF acct = "failed" THEN AccountErr
    ELSE IF ~OpenLedger(state_file_path, f).ok THEN LedgerErr
    ELSE Running

\* run(), from its entry to runner.run_function: the entry function is
\* looked up, the account is loaded when one is configured, the ledger is
\* opened, the extension is built.
StartRun(found, acct, state_file_path) ==
    /\ pc = "idle"
    /\ IF SetupError(found, acct, state_file_path, file) # Running
       THEN /\ outcome' = SetupError(found, acct, state_file_path, file)
            /\ UNCHANGED <<pc, account, state, calls>>
       ELSE /\ pc' = "vm"
            /\ account' = (acct = "loaded")
            /\ state' = OpenLedger(state_file_path, file).state
            /\ calls' = 0
            /\ outcome' = Running
    /\ cheat' = NoCheat
    /\ reads' = 0
    /\ hit' = FALSE
    /\ ret' = NoRet
    /\ options' = NoOptions
    /\ UNCHANGED <<script, file, inflight, succeeded, cached, landed, entry_code,
                   hint_maps, script_fees, tree, project, paid>>

\* ------------------------------------------------------- handle_cheatcode
\* Variant of Decoded: the arm goes on once the fingerprinted arguments are
\* read, whether fee settings and nonce decode or not.
DecodedKeyArgsOnly(selector, avail) ==
    IF selector \in MutatingSelectors
    THEN avail >= ArgCount(selector) - 2
    ELSE avail >= ArgCount(selector)

\* input_reader.read()? over a buffer holding `avail` decodable arguments.
Decoded(selector, avail) == avail >= ArgCount(selector)

ReadsDone(selector, avail) ==
    IF Decoded(selector, avail) THEN ArgCount(selector) ELSE avail + 1

\* The arms that look the fingerprint up before they submit.
ConsultsLedger(selector) == selector \in MutatingSelectors

\* Variant of LedgerHit: the arm submits without looking the action up.
LedgerHitSkipped(st, selector, key) == FALSE

\* Variant of LedgerHit: the lookup is keyed by the selector, not the tx id.
LedgerHitBySelector(st, selector, key) ==
    ConsultsLedger(selector) /\ HasEntry(st, <<selector>>)

\* if let Some(success_output) = self.state.get_output_if_success(tx_id)
LedgerHit(st, selector, key) ==
    ConsultsLedger(selector) /\ HasEntry(st, TxId(selector, key))

\* Variant of HitResult: the output of whichever entry comes first.
HitResultAnyEntry(st, selector, key) ==
    from_serializable([ok |-> TRUE,
                       val |-> (CHOOSE e \in st.entries : TRUE).output])

\* return Ok(CheatcodeHandlingResult::from_serializable(success_output))
HitResult(st, selector, key) ==
    from_serializable([ok |-> TRUE,
                       val |-> get_output_if_success(st, TxId(selector, key))])

\* Variant of NeedsAccount: get_nonce is sent without an account.
NeedsAccountMutatingOnly(selector) == selector \in MutatingSelectors

\* The arms that evaluate self.account()? as an argument of the network call.
NeedsAccount(selector) == selector \in MutatingSelectors \cup {"get_nonce"}

\* handle_cheatcode from its entry up to the point where it either returns
\* or enters tokio_runtime.block_on.
CheatcodeEntry(selector, key, avail, st, acct) ==
    IF selector \notin KnownSelectors
    THEN [next |-> "return", reads |-> 0, hit |-> FALSE, ret |-> Forwarded]
    ELSE IF ~Decoded(selector, avail)
    THEN [next |-> "error", reads |-> ReadsDone(selector, avail), hit |-> FALSE,
          ret |-> HintErr("decode")]
    ELSE IF LedgerHit(st, selector, key)
    THEN [next |-> "return", reads |-> ArgCount(selector), hit |-> TRUE,
          ret |-> HitResult(st, selector, key)]
    ELSE IF NeedsAccount(selector) /\ ~acct
    THEN [next |-> "error", reads |-> ArgCount(selector), hit |-> FALSE,
          ret |-> HintErr(AccountNotDefined)]
    ELSE [next |-> "block", reads |-> ArgCount(selector), hit |-> FALSE,
          ret |-> NoRet]

\* The network operation an arm hands to block_on.
NetOp(selector, key) ==
    [selector |-> selector, key |-> key, id |-> TxId(selector, key)]

\* Variant of AfterEntry: the operation is spawned, the handler returns.
AfterEntryNoBlock(next) ==
    CASE next = "return" -> "vm"
      [] next = "error" -> "idle"
      [] next = "block" -> "vm"

\* Where control is once the entry part is over: back in the interpreter,
\* out of run() with the handler's error, or blocked in block_on.
AfterEntry(next) ==
    CASE next = "return" -> "vm"
      [] next = "error" -> "idle"
      [] next = "block" -> "blocked"

\* The arguments an arm decodes: the fingerprinted ones, then, in a mutating
\* arm, fee settings and nonce.
Args(c, o) ==
    IF c.selector \in MutatingSelectors
    THEN c.key \o <<o.fee_args, o.nonce>>
    ELSE c.key

\* The VM reaches a hinted offset and the chain calls handle_cheatcode.
Dispatch(c, avail) ==
    /\ pc = "vm"
    /\ calls < MaxCalls
    /\ \E o \in script_fees :
       LET e == CheatcodeEntry(c.selector, Args(c, o), avail, state, account) IN
         /\ options' = IF c.selector \in MutatingSelectors /\ Decoded(c.selector, avail)
                       THEN o ELSE NoOptions
         /\ reads' = e.reads
         /\ hit' = IF e.next = "block" THEN hit ELSE e.hit
         /\ ret' = IF e.next = "block" THEN ret ELSE e.ret
         /\ pc' = AfterEntry(e.next)
         /\ inflight' = IF e.next = "block"
                        THEN Append(inflight, NetOp(c.selector, c.key))
                        ELSE inflight
         /\ outcome' = IF e.next = "error" THEN RunErr ELSE outcome
         /\ account' = IF e.next = "error" THEN FALSE ELSE account
         /\ state' = IF e.next = "error" THEN NoState ELSE state
         /\ calls' = IF e.next = "error" THEN 0 ELSE calls + 1
         /\ landed' = IF e.next = "error" THEN {} ELSE landed
    /\ cheat' = c
    /\ UNCHANGED <<script, file, succeeded, cached, entry_code, hint_maps,
                   script_fees, tree, project, paid>>

\* Variant of Persists: every arm records its result.
PersistsAll(selector) == TRUE

\* The arms that call self.state.maybe_insert_tx_entry once block_on is back.
Persists(selector) == selector \in MutatingSelectors

\* The state-file write of maybe_insert_tx_entry is attempted.
WritesFile(st, selector, result) ==
    Persists(selector) /\ st.state_file /\ result.ok

\* Variant of StateAfter: the entry is inserted whatever the result.
StateAfterAnyResult(st, op, result) ==
    IF Persists(op.selector) /\ st.state_file
    THEN [st EXCEPT !.entries =
            @ \cup {[id |-> op.id, selector |-> op.selector, output |-> result.val]}]
    ELSE st

\* Variant of StateAfter: the ledger keeps only the newest entry.
StateAfterOverwrites(st, op, result) ==
    IF Persists(op.selector) /\ st.state_file /\ result.ok
    THEN [st EXCEPT !.entries =
            {[id |-> op.id, selector |-> op.selector, output |-> result.val]}]
    ELSE st

\* Variant of StateAfter: the entry is kept in memory without a state file.
StateAfterKeptInMemory(st, op, result) ==
    IF Persists(op.selector) /\ result.ok
    THEN [st EXCEPT !.entries =
            @ \cup {[id |-> op.id, selector |-> op.selector, output |-> result.val]}]
    ELSE st

\* Variant of StateAfter: the new entry is not kept.
StateAfterDropped(st, op, result) == st

\* self.state.maybe_insert_tx_entry(tx_id, selector, &result)?
StateAfter(st, op, result) ==
    IF Persists(op.selector)
    THEN maybe_insert_tx_entry(st, op.id, op.selector, result)
    ELSE st

\* Variant of CheatcodeResume: the result of the ledger write is dropped.
CheatcodeResumeIgnoresWrite(op, result, io_ok, st) ==
    IF op.selector = "get_nonce" /\ ~result.ok
    THEN [next |-> "error", ret |-> HintErr("nonce"), state |-> st]
    ELSE [next |-> "return", ret |-> from_serializable(result),
          state |-> IF io_ok THEN StateAfter(st, op, result) ELSE st]

\* Variant of CheatcodeResume: a failed operation ends the handler with Err.
CheatcodeResumeFailFast(op, result, io_ok, st) ==
    IF ~result.ok
    THEN [next |-> "error", ret |-> HintErr(result.val), state |-> st]
    ELSE IF WritesFile(st, op.selector, result) /\ ~io_ok
    THEN [next |-> "error", ret |-> HintErr("state file"), state |-> st]
    ELSE [next |-> "return", ret |-> from_serializable(result),
          state |-> StateAfter(st, op, result)]

\* handle_cheatcode from the return of block_on to its own return.
CheatcodeResume(op, result, io_ok, st) ==
    IF WritesFile(st, op.selector, result) /\ ~io_ok
    THEN [next |-> "error", ret |-> HintErr("state file"), state |-> st]
    ELSE IF op.selector = "get_nonce" /\ ~result.ok
    THEN [next |-> "error", ret |-> HintErr("nonce"), state |-> st]
    ELSE [next |-> "return", ret |-> from_serializable(result),
          state |-> StateAfter(st, op, result)]

\* The record of an action whose result went to the state file.
Stored(op, result) ==
    [selector |-> op.selector, key |-> op.key, output |-> result.val]

\* The client resolves the operation, block_on returns and the handler runs
\* to its end.
Resolve(result, io_ok) ==
    /\ pc = "blocked"
    /\ inflight # <<>>
    /\ LET op == Head(inflight)
           r == CheatcodeResume(op, result, io_ok, state) IN
         /\ inflight' = Tail(inflight)
         /\ ret' = r.ret
         /\ hit' = FALSE
         /\ state' = IF r.next = "return" THEN r.state ELSE NoState
         /\ account' = IF r.next = "return" THEN account ELSE FALSE
         /\ calls' = IF r.next = "return" THEN calls ELSE 0
         /\ file' = IF r.next = "return" /\ WritesFile(state, op.selector, result)
                    THEN [status |-> "ok", entries |-> r.state.entries]
                    ELSE file
         /\ pc' = IF r.next = "return" THEN "vm" ELSE "idle"
         /\ outcome' = IF r.next = "return" THEN outcome ELSE RunErr
         /\ succeeded' = IF WritesFile(state, op.selector, result)
                         THEN succeeded \cup {[selector |-> op.selector, key |-> op.key]}
                         ELSE succeeded
         /\ cached' = IF r.next = "return" /\ WritesFile(state, op.selector, result)
                      THEN cached \cup {Stored(op, result)}
                      ELSE cached
         /\ landed' = IF r.next = "error" THEN {}
                      ELSE IF WritesFile(state, op.selector, result)
                      THEN landed \cup {Stored(op, result)}
                      ELSE landed
         /\ paid' = IF r.next = "return" /\ WritesFile(state, op.selector, result)
                    THEN paid \cup {[selector |-> op.selector, key |-> op.key,
                                     options |-> options]}
                    ELSE paid
    /\ UNCHANGED <<script, cheat, reads, entry_code, hint_maps, script_fees, tree, project, options>>

\* DeprecatedSyscallSelector values a script may use.
SyscallSelectors == {"CallContract", "StorageRead"}
SyscallsNotSupported == "Starknet syscalls are not supported"

\* Variant of override_system_call: reads are left to the inner handler.
override_system_call_reads_forwarded(selector) ==
    IF selector = "StorageRead" THEN Forwarded ELSE HintErr(SyscallsNotSupported)

\* override_system_call: every system call is refused.
override_system_call(selector) == HintErr(SyscallsNotSupported)

\* The VM reaches a system call and the chain calls override_system_call.
SystemCall(selector) ==
    /\ pc = "vm"
    /\ calls < MaxCalls
    /\ LET r == override_system_call(selector)
           failed == r.tag = "Err" IN
         /\ ret' = r
         /\ calls' = IF failed THEN 0 ELSE calls + 1
         /\ pc' = IF failed THEN "idle" ELSE "vm"
         /\ outcome' = IF failed THEN RunErr ELSE outcome
         /\ account' = IF failed THEN FALSE ELSE account
         /\ state' = IF failed THEN NoState ELSE state
         /\ landed' = IF failed THEN {} ELSE landed
    /\ UNCHANGED <<script, file, inflight, cheat, reads, hit, succeeded, cached,
                   entry_code, hint_maps, script_fees, tree, project, options, paid>>

\* Variant of RunResponse: a panic is returned as an error.
RunResponsePanicIsErr(result) ==
    CASE result = "Success" -> [ok |-> TRUE, status |-> "success", err |-> ""]
      [] OTHER -> RunErr

\* The match on runner.run_function's result at the end of run().
RunResponse(result) ==
    CASE result = "Success" -> [ok |-> TRUE, status |-> "success", err |-> ""]
      [] result = "Panic" -> [ok |-> TRUE, status |-> "script panicked", err |-> ""]
      [] OTHER -> RunErr

\* The interpreter stops: normal return, script panic or interpreter error.
\* The extension and what its last call left are dropped with the run.
Finish(result) ==
    /\ pc = "vm"
    /\ pc' = "idle"
    /\ outcome' = RunResponse(result)
    /\ account' = FALSE
    /\ state' = NoState
    /\ calls' = 0
    /\ landed' = {}
    /\ cheat' = NoCheat
    /\ reads' = 0
    /\ hit' = FALSE
    /\ ret' = NoRet
    /\ options' = NoOptions
    /\ UNCHANGED <<script, file, inflight, succeeded, cached, entry_code, hint_maps,
                   script_fees, tree, project, paid>>

\* The cheat invocations a script can make: its own mutating call sites and
\* the read-only and unknown selectors.
Invocations == script \cup ReadOnlyCalls

Next ==
    \/ \E found \in BOOLEAN, acct \in {"empty", "loaded", "failed"}, sf \in BOOLEAN :
          StartRun(found, acct, sf)
    \/ \E c \in Invocations : \E avail \in 0..ArgCount(c.selector) : Dispatch(c, avail)
    \/ \E result \in NetResults, io_ok \in BOOLEAN : Resolve(result, io_ok)
    \/ \E selector \in SyscallSelectors : SystemCall(selector)
    \/ \E result \in {"Success", "Panic", "Err"} : Finish(result)

Spec == Init /\ [][Next]_vars

TypeOK ==
    /\ script \in Scripts
    /\ pc \in {"idle", "vm", "blocked"}
    /\ account \in BOOLEAN
    /\ calls \in 0..MaxCalls
    /\ Len(inflight) <= 1

\* ------------------------------------------------------ create_entry_code
\* Return types of the entry function: at most MaxRetTypes of them, each with
\* the two facts create_entry_code asks about it.
MaxRetTypes == 3
TypeInfos == [droppable : BOOLEAN, user_arg : BOOLEAN]
SeqsUpTo(S, n) == UNION {[1..k -> S] : k \in 0..n}
RetTypes == SeqsUpTo(TypeInfos, MaxRetTypes)

\* info.droppable || !builder.is_user_arg_type(&info.long_id.generic_id)
DroppableOrBuiltin(ty) == ty.droppable \/ ~ty.user_arg

\* Variant of droppable_return_value: iter().any in place of iter().all.
RECURSIVE droppable_return_value_any(_)
droppable_return_value_any(ret_types) ==
    IF ret_types = <<>> THEN FALSE
    ELSE DroppableOrBuiltin(Head(ret_types))
           \/ droppable_return_value_any(Tail(ret_types))

\* func.signature.ret_types.iter().all(|ty| ...)
RECURSIVE droppable_return_value(_)
droppable_return_value(ret_types) ==
    IF ret_types = <<>> THEN TRUE
    ELSE DroppableOrBuiltin(Head(ret_types))
           /\ droppable_return_value(Tail(ret_types))

\* create_entry_code: the assert! panics, or create_entry_code_from_params
\* is called.
create_entry_code(ret_types, finalize_segment_arena) ==
    IF ~droppable_return_value(ret_types)
    THEN IF ~finalize_segment_arena THEN "from_params" ELSE "panic"
    ELSE "from_params"

InitEntryCode ==
    /\ script = {}
    /\ file = [status |-> "missing", entries |-> EmptyFile]
    /\ pc = "idle"
    /\ account = FALSE
    /\ state = NoState
    /\ inflight = <<>>
    /\ calls = 0
    /\ cheat = NoCheat
    /\ reads = 0
    /\ hit = FALSE
    /\ ret = NoRet
    /\ outcome = NoRun
    /\ succeeded = {}
    /\ cached = {}
    /\ landed = {}
    /\ entry_code \in [ret_types : RetTypes, finalize_segment_arena : BOOLEAN,
                       result : {"called"}]
    /\ hint_maps = NoHintMaps
    /\ script_fees = {DefaultOptions}
    /\ tree = NoTree
    /\ project = NoProject
    /\ options = NoOptions
    /\ paid = {}

CreateEntryCode ==
    /\ entry_code.result = "called"
    /\ entry_code' =
         [entry_code EXCEPT !.result =
            create_entry_code(entry_code.ret_types, entry_code.finalize_segment_arena)]
    /\ UNCHANGED <<script, file, pc, account, state, inflight, calls, cheat, reads,
                   hit, ret, outcome, succeeded, cached, landed, hint_maps,
                   script_fees, tree, project, options, paid>>

SpecEntryCode == InitEntryCode /\ [][CreateEntryCode]_vars

\* -------------------------------------------------------- hints_to_params
\* assembled_program.hints: at most MaxHintOffsets (offset, hints) pairs with
\* at most MaxOffsetHints hints each.
MaxHintOffsets == 2
MaxOffsetHints == 2
Hints == {[variant |-> "AllocSegment", cell |-> 0], [variant |-> "Cheatcode", cell |-> 1]}
Offsets == {0, 1}
OffsetHints == [offset : Offsets, hints : SeqsUpTo(Hints, MaxOffsetHints)]
HintInputs == SeqsUpTo(OffsetHints, MaxHintOffsets)

\* hint.representing_string(): the variant and its fields written out.
representing_string(hint) == <<hint.variant, hint.cell>>

\* hint_to_hint_params: the HintParams whose code is the hint's string.
hint_to_hint_params(hint) == [code |-> representing_string(hint)]

\* offset_hints.clone().iter().map(hint_to_hint_params).collect()
HintParamsOf(offset_hints) ==
    [i \in 1..Len(offset_hints) |-> hint_to_hint_params(offset_hints[i])]

\* Variant of InsertStrings: only the first hint of an offset is recorded.
InsertStringsFirstOnly(offset_hints, string_to_hint) ==
    IF offset_hints = <<>> THEN string_to_hint
    ELSE (representing_string(Head(offset_hints)) :> Head(offset_hints))
           @@ string_to_hint

\* for hint in offset_hints.clone() { string_to_hint.insert(...) }
RECURSIVE InsertStrings(_, _)
InsertStrings(offset_hints, string_to_hint) ==
    IF offset_hints = <<>> THEN string_to_hint
    ELSE InsertStrings(Tail(offset_hints),
                       (representing_string(Head(offset_hints)) :> Head(offset_hints))
                         @@ string_to_hint)

\* The loop of hints_to_params over the (offset, offset_hints) pairs; an
\* insert under a key already present replaces the value.
RECURSIVE HintsLoop(_, _, _)
HintsLoop(hints, hints_dict, string_to_hint) ==
    IF hints = <<>>
    THEN [hints_dict |-> hints_dict, string_to_hint |-> string_to_hint]
    ELSE HintsLoop(Tail(hints),
                   (Head(hints).offset :> HintParamsOf(Head(hints).hints)) @@ hints_dict,
                   InsertStrings(Head(hints).hints, string_to_hint))

hints_to_params(hints) == HintsLoop(hints, <<>>, <<>>)

InitHints ==
    /\ script = {}
    /\ file = [status |-> "missing", entries |-> EmptyFile]
    /\ pc = "idle"
    /\ account = FALSE
    /\ state = NoState
    /\ inflight = <<>>
    /\ calls = 0
    /\ cheat = NoCheat
    /\ reads = 0
    /\ hit = FALSE
    /\ ret = NoRet
    /\ outcome = NoRun
    /\ succeeded = {}
    /\ cached = {}
    /\ landed = {}
    /\ entry_code = NoEntryCode
    /\ hint_maps \in [hints : HintInputs, done : {FALSE}, hints_dict : {<<>>},
                      string_to_hint : {<<>>}]
    /\ script_fees = {DefaultOptions}
    /\ tree = NoTree
    /\ project = NoProject
    /\ options = NoOptions
    /\ paid = {}

HintsToParams ==
    /\ ~hint_maps.done
    /\ hint_maps' =
         [hints |-> hint_maps.hints, done |-> TRUE,
          hints_dict |-> hints_to_params(hint_maps.hints).hints_dict,
          string_to_hint |-> hints_to_params(hint_maps.hints).string_to_hint]
    /\ UNCHANGED <<script, file, pc, account, state, inflight, calls, cheat, reads,
                   hit, ret, outcome, succeeded, cached, landed, entry_code,
                   script_fees, tree, project, options, paid>>

SpecHints == InitHints /\ [][HintsToParams]_vars

\* ------------------------------------------------------------ claim helpers
\* The action a ledger record stands for.
Act(d) == [selector |-> d.selector, key |-> d.key]
CachedActs == {Act(d) : d \in cached}
\* The handler is called for c with a buffer that decodes completely.
DispatchFull(c) == Dispatch(c, ArgCount(c.selector))
Submits(c) == inflight' = Append(inflight, NetOp(c.selector, c.key))
NoNetwork == inflight' = inflight
ResolveStep == \E result \in NetResults, io_ok \in BOOLEAN : Resolve(result, io_ok)

LedgerEntriesSound(entries) ==
    /\ \A e1, e2 \in entries : e1.id = e2.id => e1 = e2
    /\ \A e \in entries :
         /\ e.output \in Outputs
         /\ \E d \in cached : /\ TxId(d.selector, d.key) = e.id
                              /\ d.selector = e.selector
                              /\ d.output = e.output

FailureLeavesAbsent ==
    \A result \in NetResults, io_ok \in BOOLEAN :
       (Resolve(result, io_ok) /\ ~result.ok /\ Persists(Head(inflight).selector))
          => /\ file' = file
             /\ ret' = from_serializable(result)
             /\ ~HasEntry(state', Head(inflight).id)

AbsentIsSubmitted ==
    \A c \in script :
       (DispatchFull(c) /\ account /\ ~HasEntry(state, TxId(c.selector, c.key)))
          => Submits(c)

\* C2: the ledger holds at most one entry per fingerprint, each the result
\* of a successful submission; a failed submission leaves the fingerprint
\* absent, and an absent fingerprint is submitted when the action is issued.
C2_LedgerSound ==
    /\ [](LedgerEntriesSound(file.entries) /\ LedgerEntriesSound(state.entries))
    /\ [][FailureLeavesAbsent /\ AbsentIsSubmitted]_vars

\* A mutating action failed in a run whose ledger holds another entry, and
\* its fingerprint is absent.
C2_Witness ==
    /\ pc = "vm" /\ ret.tag = "Handled" /\ ~ret.ok
    /\ cheat.selector \in MutatingSelectors
    /\ state.state_file /\ state.entries # {}
    /\ ~HasEntry(state, TxId(cheat.selector, cheat.key))

\* ------------------------------------------------------------------- C3
\* C3: a mutating selector dispatched with no account fails with 'Account
\* not defined', makes no network call and leaves the ledger unchanged, in
\* every ledger state.
C3_NoAccountFails ==
    [][\A c \in script :
         (DispatchFull(c) /\ ~account)
            => /\ ret' = HintErr(AccountNotDefined)
               /\ NoNetwork
               /\ file' = file]_vars

C5_HitReturnsStored ==
    /\ [](\A d1, d2 \in cached : Act(d1) = Act(d2) => d1 = d2)
    /\ [][\A c \in script :
            (DispatchFull(c) /\ pc' = "vm" /\ hit')
               => /\ NoNetwork
                  /\ \E d \in cached :
                       /\ Act(d) = c
                       /\ ret' = from_serializable([ok |-> TRUE, val |-> d.output])]_vars

\* A later run hit the ledger while it held two entries with different
\* results.
C5_Witness ==
    /\ pc = "vm" /\ hit /\ landed = {} /\ ret.ok
    /\ \E e1, e2 \in state.entries : e1.output # e2.output

\* ------------------------------------------------------------------- C6
\* C6: two actions of one kind that differ in a fingerprinted parameter
\* have different fingerprints, and an action none of whose same-kind
\* cached successes has its parameters is submitted (once).
C6_ParamsDistinguish ==
    /\ [](\A a, b \in script :
            (a.selector = b.selector /\ a.key # b.key)
               => TxId(a.selector, a.key) # TxId(b.selector, b.key))
    /\ [][\A c \in script :
            (/\ DispatchFull(c) /\ account
             /\ \E d \in cached : d.selector = c.selector
             /\ \A d \in cached : d.selector = c.selector => d.key # c.key)
               => Submits(c)]_vars

\* A deploy is being submitted while the ledger of the run holds a deploy
\* that differs from it in the salt only.
C6_Witness ==
    /\ pc = "blocked" /\ Len(inflight) = 1 /\ state.state_file
    /\ Head(inflight).selector = "deploy"
    /\ \E d \in cached :
         /\ d.selector = "deploy"
         /\ HasEntry(state, TxId(d.selector, d.key))
         /\ d.key[1] = Head(inflight).key[1]
         /\ d.key[2] = Head(inflight).key[2]
         /\ d.key[3] # Head(inflight).key[3]
         /\ d.key[4] = Head(inflight).key[4]

\* ------------------------------------------------------------------- C7
\* C7: actions of different kinds never share a fingerprint, identical raw
\* parameter bytes included, so an action all of whose cached successes are
\* of another kind is submitted, not answered from the ledger.
C7_KindsDistinguish ==
    /\ [](\A a, b \in script :
            a.selector # b.selector
               => TxId(a.selector, a.key) # TxId(b.selector, b.key))
    /\ [][\A c \in script :
            (/\ DispatchFull(c) /\ account
             /\ cached # {}
             /\ \A d \in cached : d.selector # c.selector)
               => (Submits(c) /\ pc' = "blocked")]_vars

\* An action is being submitted while the ledger of the run holds an action
\* of another kind with the same raw parameter bytes.
C7_Witness ==
    /\ pc = "blocked" /\ Len(inflight) = 1 /\ state.state_file
    /\ Head(inflight).selector \in MutatingSelectors
    /\ \E d \in cached :
         /\ d.selector # Head(inflight).selector
         /\ HasEntry(state, TxId(d.selector, d.key))
         /\ RawBytes(d.selector, d.key)
              = RawBytes(Head(inflight).selector, Head(inflight).key)

\* ------------------------------------------------------------------- C8
ReadOnlyStepKeepsLedger ==
    /\ \A c \in ReadOnlyCalls :
         (c.selector \in ReadOnlySelectors
            /\ \E avail \in 0..ArgCount(c.selector) : Dispatch(c, avail))
           => (file' = file /\ cached' = cached /\ (pc' # "idle" => state' = state))
    /\ (ResolveStep /\ Head(inflight).selector \in ReadOnlySelectors)
           => (file' = file /\ cached' = cached /\ (pc' # "idle" => state' = state))

\* C8: call, get_nonce and tx_status never touch the ledger, and a script
\* with no mutating cheat leaves the ledger as it was before the first run.
C8_ReadOnlyKeepsLedger ==
    /\ [](script = {} => (file.entries = EmptyFile /\ file.status # "ok"))
    /\ [][ReadOnlyStepKeepsLedger]_vars

\* The second cheat call of a run on the state file, a get_nonce of a
\* script without mutating cheats, returned its result.
C8_Witness ==
    /\ script = {} /\ pc = "vm" /\ calls = 2 /\ state.state_file
    /\ cheat.selector = "get_nonce" /\ ret.tag = "Handled" /\ ret.ok

\* ------------------------------------------------------------------- C9
\* C9: a selector without an arm is answered with Forwarded: no argument is
\* read, no network call is made, the ledger and the run are left as they
\* are.
C9_UnknownForwarded ==
    [][\A c \in ReadOnlyCalls :
         (c.selector \notin {"call", "declare", "deploy", "invoke", "get_nonce", "tx_status"}
            /\ \E avail \in 0..ArgCount(c.selector) : Dispatch(c, avail))
           => /\ ret' = Forwarded
              /\ reads' = 0
              /\ NoNetwork
              /\ pc' = "vm"
              /\ UNCHANGED <<file, state, account, outcome, succeeded, cached, landed>>]_vars

\* An unknown selector was forwarded in a run whose ledger holds an entry.
C9_Witness ==
    /\ pc = "vm" /\ cheat.selector = "other" /\ ret = Forwarded
    /\ state.entries # {} /\ inflight = <<>>

\* ------------------------------------------------------------------ C10
\* C10: at most one network operation is in flight.
C10_OneInFlight == Len(inflight) <= 1

\* The second network operation of a run is in flight, alone.
C10_Witness ==
    /\ pc = "blocked" /\ calls = 2 /\ Len(inflight) = 1
    /\ ret.tag = "Handled" /\ ~hit

\* ------------------------------------------------------------------ C11
\* C11: a network operation is outstanding only while the handler is
\* blocked; whenever the interpreter is stepping or no run is active none is
\* outstanding, and while one is outstanding the only step taken is its
\* resolution: no hint fires and the run does not end otherwise.
C11_NetDoneBeforeReturn ==
    /\ [](inflight # <<>> => pc = "blocked")
    /\ [](pc = "blocked" => Len(inflight) = 1)
    /\ [][inflight # <<>> => (ResolveStep /\ inflight' = <<>> /\ cheat' = cheat)]_vars

\* The handler is back in the interpreter with the result of a network
\* operation that has completed.
C11_Witness ==
    /\ pc = "vm" /\ inflight = <<>> /\ calls >= 1
    /\ cheat.selector \in MutatingSelectors \cup {"call", "get_nonce", "tx_status"}
    /\ ret.tag = "Handled" /\ ~hit /\ reads = ArgCount(cheat.selector)

\* ------------------------------------------------------------------ C12
\* C12: a system call, whatever its selector and whatever the state, is
\* answered with the error "Starknet syscalls are not supported": no network
\* call is made, the ledger is not changed, and run() returns Err, not a
\* status.
C12_SyscallRefused ==
    [][\A selector \in SyscallSelectors :
         SystemCall(selector)
           => /\ ret' = HintErr("Starknet syscalls are not supported")
              /\ NoNetwork
              /\ file' = file /\ cached' = cached /\ succeeded' = succeeded
              /\ pc' = "idle"
              /\ ~outcome'.ok /\ outcome'.status = ""]_vars

\* A run that held a ledger entry was ended by a system call.
C12_Witness ==
    /\ pc = "idle" /\ outcome = RunErr
    /\ ret = HintErr("Starknet syscalls are not supported")
    /\ file.entries # {} /\ inflight = <<>>

\* ------------------------------------------------------------------ C13
\* C13: a normal return gives Ok with status "success", a script panic gives
\* Ok with status "script panicked", an interpreter or handler error gives Err
\* with no status; an Ok outcome has no other status.
C13_OutcomeMapping ==
    /\ [](outcome.ok => outcome.status \in {"success", "script panicked"})
    /\ [](pc = "idle" /\ ~outcome.ok /\ outcome # NoRun => outcome.status = "")
    /\ [][/\ Finish("Success") => outcome' = [ok |-> TRUE, status |-> "success", err |-> ""]
          /\ Finish("Panic") => outcome' = [ok |-> TRUE, status |-> "script panicked", err |-> ""]
          /\ Finish("Err") => (~outcome'.ok /\ outcome'.status = "")
          /\ (pc # "idle" /\ pc' = "idle" /\ ret'.tag = "Err" /\ ret' # ret)
               => (~outcome'.ok /\ outcome'.status = "")]_vars

\* A run that recorded an action in the state file ended with a script
\* panic.
C13_Witness ==
    /\ pc = "idle" /\ outcome.ok /\ outcome.status = "script panicked"
    /\ cached # {}

\* ------------------------------------------------------------------ C14
\* C14: the ledger is append-only. Every entry of the state file and of the
\* run's ledger is still there, unchanged, after each step; the file is
\* written only for an action whose lookup missed; no two entries share a
\* transaction id.
UniqueIds(entries) == \A e1, e2 \in entries : e1.id = e2.id => e1 = e2

C14_AppendOnly ==
    /\ [](UniqueIds(file.entries))
    /\ [][/\ file.entries \subseteq file'.entries
          /\ (pc # "idle" /\ pc' # "idle") => state.entries \subseteq state'.entries
          /\ file' # file => (ResolveStep /\ ~HasEntry(state, Head(inflight).id))]_vars

\* An entry was appended by a run to a file that held another entry.
C14_Witness ==
    /\ pc = "vm" /\ Cardinality(file.entries) = 2 /\ Cardinality(landed) = 1
    /\ state.entries = file.entries

\* ------------------------------------------------------------------ C15
\* C15: in a run without a state file the ledger stays empty whatever the
\* file holds, a mutating cheat that decodes and has an account is submitted,
\* and its resolution leaves the file alone and raises no error.
C15_NoStateFile ==
    /\ []((pc # "idle" /\ ~state.state_file) => state.entries = {})
    /\ [][\A c \in script :
            (DispatchFull(c) /\ ~state.state_file /\ account)
              => (Submits(c) /\ pc' = "blocked")]_vars
    /\ [][(ResolveStep /\ ~state.state_file /\ Head(inflight).selector \in MutatingSelectors)
            => (file' = file /\ pc' = "vm" /\ ret'.tag = "Handled"
                /\ state' = state)]_vars

\* A run without a state file submits, for the second time in the run, an
\* action whose result an earlier run has stored in the file.
C15_Witness ==
    /\ pc = "blocked" /\ ~state.state_file /\ calls = 2
    /\ Cardinality(script) = 1
    /\ cheat \in script /\ Act(Head(inflight)) = cheat /\ cheat \in CachedActs
    /\ ret.tag = "Handled" /\ ret.ok /\ ret.val \in Outputs

C17_FailureIsResult ==
    /\ [][\A io_ok \in BOOLEAN :
            (Resolve([ok |-> FALSE, val |-> ErrorPayload], io_ok)
               /\ Head(inflight).selector \in MutatingSelectors)
              => /\ ret' = [tag |-> "Handled", ok |-> FALSE, val |-> ErrorPayload]
                 /\ pc' = "vm" /\ outcome' = outcome /\ calls' = calls
                 /\ inflight' = <<>>]_vars
    /\ [][inflight' # inflight
            => \/ inflight # <<>> /\ inflight' = Tail(inflight)
               \/ /\ pc = "vm" /\ calls' = calls + 1
                  /\ inflight' = Append(inflight, NetOp(cheat'.selector, cheat'.key))]_vars

\* A failed deploy was returned to the script and the run continues.
C17_Witness ==
    /\ pc = "vm" /\ outcome = Running /\ inflight = <<>>
    /\ cheat.selector = "deploy"
    /\ ret = [tag |-> "Handled", ok |-> FALSE, val |-> ErrorPayload]

\* ------------------------------------------------------------------ C18
\* C18: when the main function is not found, run() returns the
\* function-not-found error whatever the account and the state file are: the
\* account is not loaded, the ledger is not opened, the interpreter is not
\* entered, no network call is made and the file is not written.
C18_MainNotFound ==
    [][\A acct \in {"empty", "loaded", "failed"}, sf \in BOOLEAN :
         StartRun(FALSE, acct, sf)
           => /\ outcome' = FunctionNotFound
              /\ pc' = "idle"
              /\ NoNetwork
              /\ UNCHANGED <<file, account, state, calls, cached, succeeded>>]_vars

\* run() returned the function-not-found error over a file holding entries.
C18_Witness ==
    /\ pc = "idle" /\ outcome = FunctionNotFound /\ file.entries # {}
    /\ ~account /\ state = NoState

\* ------------------------------------------------------------------ C19
\* C19: create_entry_code panics exactly when finalize_segment_arena is set
\* and some return type is a user argument type that is not droppable; in
\* every other case it goes on to create_entry_code_from_params.
NotDiscardable(ty) == ~ty.droppable /\ ty.user_arg

C19_AbortsExactlyWhen ==
    entry_code.result \in {"panic", "from_params"}
      => /\ entry_code.result = "panic"
              <=> /\ entry_code.finalize_segment_arena
                  /\ \E i \in 1..Len(entry_code.ret_types) :
                        NotDiscardable(entry_code.ret_types[i])
         /\ entry_code.result = "from_params"
              <=> \/ ~entry_code.finalize_segment_arena
                  \/ \A i \in 1..Len(entry_code.ret_types) :
                        ~NotDiscardable(entry_code.ret_types[i])

\* The call panicked on a signature whose first return type is droppable
\* and whose last one is neither droppable nor a builtin.
C19_Witness ==
    /\ entry_code.result = "panic"
    /\ Len(entry_code.ret_types) >= 2
    /\ entry_code.ret_types[1].droppable
    /\ NotDiscardable(entry_code.ret_types[Len(entry_code.ret_types)])

\* ------------------------------------------------------------------ C20
\* C20: after hints_to_params every HintParams of the offset map has its code
\* as a key of the string map, the hint stored under a string has that string
\* as its representing string, and every hint of the input is the one stored
\* under its string.
C20_HintMapsConsistent ==
    hint_maps.done
      => /\ \A o \in DOMAIN hint_maps.hints_dict :
              \A i \in DOMAIN hint_maps.hints_dict[o] :
                 hint_maps.hints_dict[o][i].code \in DOMAIN hint_maps.string_to_hint
         /\ \A str \in DOMAIN hint_maps.string_to_hint :
              representing_string(hint_maps.string_to_hint[str]) = str
         /\ \A k \in 1..Len(hint_maps.hints) :
              \A i \in 1..Len(hint_maps.hints[k].hints) :
                 LET hint == hint_maps.hints[k].hints[i] IN
                   /\ representing_string(hint) \in DOMAIN hint_maps.string_to_hint
                   /\ hint_maps.string_to_hint[representing_string(hint)] = hint

\* Two offsets carry hints, one of them two different hints, and one hint
\* occurs at both offsets.
C20_Witness ==
    /\ hint_maps.done
    /\ Len(hint_maps.hints) = 2
    /\ hint_maps.hints[1].offset # hint_maps.hints[2].offset
    /\ Len(hint_maps.hints[1].hints) = 2
    /\ hint_maps.hints[1].hints[1] # hint_maps.hints[1].hints[2]
    /\ Len(hint_maps.hints[2].hints) = 1
    /\ hint_maps.hints[2].hints[1] = hint_maps.hints[1].hints[2]
    /\ Cardinality(DOMAIN hint_maps.hints_dict) = 2
    /\ Cardinality(DOMAIN hint_maps.string_to_hint) = 2

\* ------------------------------------------------------------------ C21
\* C21: a mutating cheat is looked up, then submitted, then persisted, then
\* returned. A submission starts only for a fingerprint the ledger of the
\* run does not hold and adds one operation; the ledger and the file change
\* only in the step in which the operation resolved; and once the handler
\* has returned a successful result in a run on a state file, the entry is
\* in the ledger and in the file.
C21_LookupSubmitPersistReturn ==
    /\ [][\A c \in script :
            (DispatchFull(c) /\ inflight' # inflight)
              => /\ ~HasEntry(state, TxId(c.selector, c.key))
                 /\ inflight' = Append(inflight, NetOp(c.selector, c.key))
                 /\ state' = state /\ file' = file /\ ret' = ret]_vars
    /\ [][(pc # "idle" /\ pc' # "idle" /\ (state' # state \/ file' # file))
            => /\ pc = "blocked" /\ inflight # <<>> /\ inflight' = Tail(inflight)
               /\ state'.entries \ state.entries
                    = {[id |-> Head(inflight).id, selector |-> Head(inflight).selector,
                        output |-> ret'.val]}
               /\ file'.entries = state'.entries]_vars
    /\ [][(pc = "blocked" /\ pc' = "vm" /\ state.state_file /\ ret'.ok
             /\ Head(inflight).selector \in MutatingSelectors)
            => /\ HasEntry(state', Head(inflight).id)
               /\ HasEntry(file', Head(inflight).id)]_vars

\* The second mutating cheat of a run was submitted after a miss, resolved
\* with success, written and returned, next to the entry of the first.
C21_Witness ==
    /\ pc = "vm" /\ calls = 2 /\ state.state_file /\ ~hit
    /\ cheat \in script /\ ret.tag = "Handled" /\ ret.ok
    /\ Cardinality(landed) = 2
    /\ HasEntry(file, TxId(cheat.selector, cheat.key))

C27_PersistFailureAborts ==
    /\ [][\A result \in NetResults :
            (Resolve(result, FALSE) /\ WritesFile(state, Head(inflight).selector, result))
              => /\ ret'.tag = "Err"
                 /\ pc' = "idle" /\ outcome' = RunErr
                 /\ file' = file /\ cached' = cached
                 /\ ~HasEntry(file', Head(inflight).id)]_vars
    /\ [][\A c \in script :
            (/\ DispatchFull(c) /\ account /\ state.state_file
             /\ c \in succeeded /\ c \notin CachedActs)
              => (Submits(c) /\ pc' = "blocked")]_vars

\* An action a run submitted with success, whose write then failed, is
\* being submitted again by a run on the state file.
C27_Witness ==
    /\ pc = "blocked" /\ state.state_file /\ Len(inflight) = 1
    /\ Act(Head(inflight)) \in succeeded
    /\ Act(Head(inflight)) \notin CachedActs

\* ------------------------------------------------------------------ C28
\* C28: for a selector with an arm, a buffer that does not decode completely
\* ends the handler with an error at the failing argument: the ledger is not
\* consulted, whatever it holds, no network call is made and nothing is
\* written.
C28_DecodeFirst ==
    [][\A c \in Invocations :
         \A avail \in 0..ArgCount(c.selector) :
           (c.selector \in {"call", "declare", "deploy", "invoke", "get_nonce", "tx_status"}
              /\ avail < ArgCount(c.selector) /\ Dispatch(c, avail))
             => /\ ret'.tag = "Err" /\ ~hit'
                /\ reads' = avail + 1
                /\ NoNetwork
                /\ file' = file /\ cached' = cached
                /\ pc' = "idle" /\ outcome' = RunErr]_vars

\* A deploy whose fingerprinted arguments decoded and whose result is in the
\* file ended the run with a decode error.
C28_Witness ==
    /\ pc = "idle" /\ outcome = RunErr /\ ret.tag = "Err"
    /\ cheat.selector = "deploy" /\ reads = 5
    /\ HasEntry(file, TxId(cheat.selector, cheat.key))

\* ------------------------------------------------------------------ C22
\* Scripts with at most one mutating call site, and a client that resolves
\* every operation it was handed: block_on returns when the future does.
InitLive == Init /\ Cardinality(script) <= 1
FairSpec ==
    /\ InitLive
    /\ [][Next]_vars
    /\ WF_vars(\E result \in NetResults, io_ok \in BOOLEAN : Resolve(result, io_ok))

\* C22: a handler that started a network operation leaves block_on in the
\* step in which the client resolves the operation and in no other step, so
\* with a client that resolves every operation each such handler call
\* returns.
C22_DispatchReturns ==
    /\ (inflight # <<>>) ~> (inflight = <<>> /\ pc # "blocked")
    /\ [][(inflight # <<>> /\ (pc' # pc \/ calls' # calls \/ ret' # ret))
            => (ResolveStep /\ inflight' = <<>>)]_vars
    /\ [][(inflight # <<>> /\ ResolveStep) => pc' \in {"vm", "idle"}]_vars

\* A handler call that waited for the client returned a failure to the
\* script of a run on the state file.
C22_Witness ==
    /\ pc = "vm" /\ inflight = <<>> /\ calls >= 1 /\ state.state_file
    /\ cheat \in script /\ ret.tag = "Handled" /\ ~ret.ok /\ ~hit

\* ------------------------------------------------------------------ C25
\* Scripts with one mutating call site that is reached with any fee
\* settings and any nonce.
InitFees ==
    /\ script \in {{b} : b \in BaseCalls}
    /\ file \in [status : {"missing", "corrupt"}, entries : {EmptyFile}]
    /\ pc = "idle"
    /\ account = FALSE
    /\ state = NoState
    /\ inflight = <<>>
    /\ calls = 0
    /\ cheat = NoCheat
    /\ reads = 0
    /\ hit = FALSE
    /\ ret = NoRet
    /\ outcome = NoRun
    /\ succeeded = {}
    /\ cached = {}
    /\ landed = {}
    /\ entry_code = NoEntryCode
    /\ hint_maps = NoHintMaps
    /\ script_fees = TxOptions
    /\ tree = NoTree
    /\ project = NoProject
    /\ options = NoOptions
    /\ paid = {}

SpecFees == InitFees /\ [][Next]_vars

\* C25: fee settings and nonce are not part of the fingerprint. A mutating
\* cheat whose fingerprinted arguments are those of a recorded action, sent
\* with whatever fee settings and nonce, is answered from the ledger with the
\* recorded result and submits nothing.
C25_FeesNotInKey ==
    [][\A c \in script :
         (/\ DispatchFull(c)
          /\ HasEntry(state, TxId(c.selector, c.key))
          /\ \E p \in paid : p.selector = c.selector /\ p.key = c.key)
           => /\ NoNetwork /\ hit' /\ pc' = "vm"
              /\ ret' = [tag |-> "Handled", ok |-> TRUE,
                         val |-> (CHOOSE e \in state.entries :
                                    e.id = TxId(c.selector, c.key)).output]
              /\ file' = file /\ state' = state]_vars

\* A cheat sent with other fee settings and another nonce than the recorded
\* submission of the same action was answered from the ledger.
C25_Witness ==
    /\ pc = "vm" /\ hit /\ cheat \in script /\ ret.tag = "Handled" /\ ret.ok
    /\ inflight = <<>>
    /\ \E p \in paid :
         /\ p.selector = cheat.selector /\ p.key = cheat.key
         /\ p.options.fee_args # options.fee_args
         /\ p.options.nonce # options.nonce

\* ---------------------------------------------------------------------
\* Rendering a Trace as a tree: impl Display for Trace, Node, TreeSerialize.
\* ---------------------------------------------------------------------

MaxTraceDepth == 3
MaxNestedCalls == 2
TraceSelectors == {"f", "g"}

\* The traces rendered: up to MaxTraceDepth levels of calls; a call has up
\* to MaxNestedCalls nested calls, of which the first may have nested calls
\* of its own and the ones after it have none.
RECURSIVE Traces(_)
Traces(d) ==
    IF d <= 1
    THEN {TraceOf(s, <<>>) : s \in TraceSelectors}
    ELSE LET deep == Traces(d - 1)
             flat == SeqsUpTo(Traces(1), MaxNestedCalls - 1)
         IN  {TraceOf(s, n) :
                 s \in TraceSelectors,
                 n \in {<<>>} \cup {<<first>> \o rest : first \in deep, rest \in flat}}

\* NodeDisplay::display: the text of a node, the item's tag and its value.
display(tag, value) == <<tag, value>>
Guard == <<"guard">>

\* TreeBuilder::begin_child: the new item goes below the last item of each
\* level down to the builder's level, and the builder goes one level down.
RECURSIVE append_child(_, _, _)
append_child(item, level, child) ==
    IF level = 0
    THEN Item(item.text, Append(item.children, child))
    ELSE LET n == Len(item.children) IN
         Item(item.text,
              [item.children EXCEPT ![n] = append_child(item.children[n], level - 1, child)])
begin_child(builder, text) ==
    [item |-> append_child(builder.item, builder.level, Item(text, <<>>)),
     level |-> builder.level + 1]
\* TreeBuilder::end_child: one level up. A level below zero stands for the
\* underflow of the unsigned level (a panic or a wrapped value).
end_child(builder) == [builder EXCEPT !.level = @ - 1]
\* TreeBuilder::add_empty_child: begin_child and end_child.
add_empty_child(builder, text) == end_child(begin_child(builder, text))
\* TreeBuilder::build: a copy of the items.
build(builder) == builder.item

\* Variant of create_builder with a single guard: the root Node on level 0.
create_builder_one_guard == [item |-> Item(Guard, <<>>), level |-> 0]
\* Node::create_builder: a guard root and a guard child, the builder on level 1.
create_builder == begin_child([item |-> Item(Guard, <<>>), level |-> 0], Guard)

\* The steps serialize takes on the builder, in the order of the calls:
\* child_node (begin_child, a new Node), leaf (add_empty_child) and the drop
\* of a Node (end_child).
ChildNodeOp(text) == [op |-> "child_node", text |-> text]
LeafOp(text) == [op |-> "leaf", text |-> text]
DropOp == [op |-> "drop", text |-> <<>>]

\* The six node.leaf calls of TreeSerialize for TraceInfo.
TraceInfoLeaves(info) ==
    << LeafOp(display("entry_point_type", info.entry_point_type)),
       LeafOp(display("calldata", info.calldata)),
       LeafOp(display("storage_address", info.storage_address)),
       LeafOp(display("caller_address", info.caller_address)),
       LeafOp(display("call_type", info.call_type)),
       LeafOp(display("call_result", info.call_result)) >>

\* Variant of serialize for Trace: the child Node dropped before the nested
\* calls are serialized, which puts them beside their parent.
RECURSIVE serialize_Trace_siblings(_), serialize_siblings(_)
serialize_Trace_siblings(trace) ==
    <<ChildNodeOp(display("selector", trace.selector))>>
        \o TraceInfoLeaves(trace.trace_info) \o <<DropOp>>
        \o serialize_siblings(trace.trace_info.nested_calls)
serialize_siblings(nested_calls) ==
    IF nested_calls = <<>> THEN <<>>
    ELSE serialize_Trace_siblings(Head(nested_calls))
             \o serialize_siblings(Tail(nested_calls))

\* TreeSerialize for Trace: node.child_node(&self.selector).serialize(&self.trace_info),
\* the child Node dropped at the end of the statement.
\* TreeSerialize for TraceInfo: the six leaves, then node.serialize(nested_call)
\* for each nested call in order.
RECURSIVE serialize_Trace(_), serialize_TraceInfo(_), serialize_nested_calls(_)
serialize_Trace(trace) ==
    <<ChildNodeOp(display("selector", trace.selector))>>
        \o serialize_TraceInfo(trace.trace_info) \o <<DropOp>>
serialize_TraceInfo(info) ==
    TraceInfoLeaves(info) \o serialize_nested_calls(info.nested_calls)
serialize_nested_calls(nested_calls) ==
    IF nested_calls = <<>> THEN <<>>
    ELSE serialize_Trace(Head(nested_calls)) \o serialize_nested_calls(Tail(nested_calls))

\* extract_guard: the two assertions and the only child.
extract_guard(string_item) ==
    IF string_item.text = Guard /\ Len(string_item.children) = 1
    THEN [ok |-> TRUE, item |-> string_item.children[1]]
    ELSE [ok |-> FALSE, item |-> string_item]

InitTree ==
    /\ script = {}
    /\ file = [status |-> "missing", entries |-> EmptyFile]
    /\ pc = "idle"
    /\ account = FALSE
    /\ state = NoState
    /\ inflight = <<>>
    /\ calls = 0
    /\ cheat = NoCheat
    /\ reads = 0
    /\ hit = FALSE
    /\ ret = NoRet
    /\ outcome = NoRun
    /\ succeeded = {}
    /\ cached = {}
    /\ landed = {}
    /\ entry_code = NoEntryCode
    /\ hint_maps = NoHintMaps
    /\ script_fees = {DefaultOptions}
    /\ options = NoOptions
    /\ paid = {}
    /\ project = NoProject
    /\ tree \in {[NoTree EXCEPT !.stage = "start", !.trace = t] :
                    t \in Traces(MaxTraceDepth)}

runVars == <<script, file, pc, account, state, inflight, calls, cheat, reads, hit,
             ret, outcome, succeeded, cached, landed, entry_code, hint_maps,
             script_fees, options, paid>>

\* Display::fmt up to self.serialize: the builder, the root Node.
CreateBuilder ==
    /\ tree.stage = "start"
    /\ tree' = [tree EXCEPT !.stage = "serialize",
                            !.builder = create_builder,
                            !.todo = serialize_Trace(tree.trace)]
    /\ UNCHANGED <<runVars, project>>

\* Node::child_node.
ChildNode ==
    /\ tree.stage = "serialize"
    /\ tree.todo # <<>>
    /\ Head(tree.todo).op = "child_node"
    /\ tree' = [tree EXCEPT !.builder = begin_child(tree.builder, Head(tree.todo).text),
                            !.begun = @ + 1,
                            !.todo = Tail(@)]
    /\ UNCHANGED <<runVars, project>>

\* Node::leaf.
Leaf ==
    /\ tree.stage = "serialize"
    /\ tree.todo # <<>>
    /\ Head(tree.todo).op = "leaf"
    /\ tree' = [tree EXCEPT !.builder = add_empty_child(tree.builder, Head(tree.todo).text),
                            !.todo = Tail(@)]
    /\ UNCHANGED <<runVars, project>>

\* Drop for Node, of a child Node.
DropNode ==
    /\ tree.stage = "serialize"
    /\ tree.todo # <<>>
    /\ Head(tree.todo).op = "drop"
    /\ tree' = [tree EXCEPT !.builder = end_child(tree.builder),
                            !.ended = @ + 1,
                            !.todo = Tail(@)]
    /\ UNCHANGED <<runVars, project>>

\* Node::into_string of the root Node: build, extract_guard twice, and the
\* drop of the root Node when the function is left (by return or by panic).
IntoString ==
    /\ tree.stage = "serialize"
    /\ tree.todo = <<>>
    /\ LET outer == extract_guard(build(tree.builder))
           inner == extract_guard(outer.item)
       IN  tree' = [tree EXCEPT
                      !.stage = IF outer.ok /\ inner.ok THEN "done" ELSE "panic",
                      !.out = IF outer.ok /\ inner.ok THEN inner.item ELSE Item(<<>>, <<>>),
                      !.builder = end_child(tree.builder)]
    /\ UNCHANGED <<runVars, project>>

NextTree == CreateBuilder \/ ChildNode \/ Leaf \/ DropNode \/ IntoString
SpecTree == InitTree /\ [][NextTree]_vars

\* ---------------------------------------------------------------------
\* forge: new(NewArgs {path, name, no_vcs, overwrite, template}).
\* ---------------------------------------------------------------------

\* What the path is when new() is called: nothing, an empty directory, a
\* directory with entries, a file, a directory that read_dir cannot read.
PathKinds == {"absent", "empty_dir", "nonempty_dir", "file", "unreadable_dir"}
Templates == {"CairoProgram", "BalanceContract"}
NonEmptyDirErr == "points to a non-empty directory"
CannotInferName == "Cannot infer package name from path"
IoErr == "io"

\* Variant of the check that fails on directories with entries only.
NonEmptyCheckFailsOnEntriesOnly(overwrite, path) ==
    ~overwrite /\ path = "nonempty_dir"
\* if !overwrite { ensure!(!path.exists()
\*                         || path.read_dir().is_ok_and(|mut i| i.next().is_none())) }
NonEmptyCheckFails(overwrite, path) ==
    ~overwrite /\ ~(path = "absent" \/ path = "empty_dir")

\* The calls of new(): Scarb.toml and snfoundry.toml can be there only when
\* the path is a directory with entries.
InitNew ==
    /\ script = {}
    /\ file = [status |-> "missing", entries |-> EmptyFile]
    /\ pc = "idle"
    /\ account = FALSE
    /\ state = NoState
    /\ inflight = <<>>
    /\ calls = 0
    /\ cheat = NoCheat
    /\ reads = 0
    /\ hit = FALSE
    /\ ret = NoRet
    /\ outcome = NoRun
    /\ succeeded = {}
    /\ cached = {}
    /\ landed = {}
    /\ entry_code = NoEntryCode
    /\ hint_maps = NoHintMaps
    /\ script_fees = {DefaultOptions}
    /\ options = NoOptions
    /\ paid = {}
    /\ tree = NoTree
    /\ project \in
         {p \in [pc : {"check"}, path : PathKinds, overwrite : BOOLEAN, name : BOOLEAN,
                 file_name : BOOLEAN, no_vcs : BOOLEAN, template : Templates,
                 scarb_manifest : BOOLEAN, snfoundry_manifest : BOOLEAN,
                 effects : {<<>>}, result : {"none"}] :
             (p.scarb_manifest \/ p.snfoundry_manifest)
                 => p.path \in {"nonempty_dir", "unreadable_dir"}}

Returned(result) == [project EXCEPT !.pc = "returned", !.result = result]

\* The ensure! at the head of new().
CheckPath ==
    /\ project.pc = "check"
    /\ project' = IF NonEmptyCheckFails(project.overwrite, project.path)
                  THEN Returned(NonEmptyDirErr)
                  ELSE [project EXCEPT !.pc = "infer_name"]
    /\ UNCHANGED <<runVars, tree>>

\* infer_name(name, &path)?
InferName ==
    /\ project.pc = "infer_name"
    /\ project' = IF project.name \/ project.file_name
                  THEN [project EXCEPT !.pc = "create_dir"]
                  ELSE Returned(CannotInferName)
    /\ UNCHANGED <<runVars, tree>>

\* fs::create_dir_all(&path)?; path.canonicalize()?  A file at the path makes
\* create_dir_all fail.
CreateDirAll ==
    /\ project.pc = "create_dir"
    /\ \E io_ok \in BOOLEAN :
         project' = IF project.path = "file" \/ ~io_ok
                    THEN Returned(IoErr)
                    ELSE [project EXCEPT !.pc = "scarb_init",
                                         !.effects = Append(@, "create_dir_all")]
    /\ UNCHANGED <<runVars, tree>>

\* if !scarb_manifest_path.is_file(): scarb init, scarb remove --dev cairo_test.
ScarbInit ==
    /\ project.pc = "scarb_init"
    /\ \E io_ok \in BOOLEAN :
         project' =
           IF project.scarb_manifest
           THEN [project EXCEPT !.pc = "manifests"]
           ELSE IF ~io_ok
           THEN [Returned("Failed to initialize a new project") EXCEPT
                    !.effects = Append(@, "scarb init")]
           ELSE [project EXCEPT
                    !.pc = "manifests",
                    !.scarb_manifest = TRUE,
                    !.effects =
                        @ \o <<IF project.no_vcs THEN "scarb init --no-vcs" ELSE "scarb init",
                               "scarb remove">>]
    /\ UNCHANGED <<runVars, tree>>

\* add_template_to_scarb_manifest; create_snfoundry_manifest when the file
\* is not there.
WriteManifests ==
    /\ project.pc = "manifests"
    /\ \E io_ok \in BOOLEAN :
         project' =
           IF ~io_ok THEN Returned(IoErr)
           ELSE [project EXCEPT
                    !.pc = "populate",
                    !.snfoundry_manifest = TRUE,
                    !.effects =
                        @ \o <<"write Scarb.toml">>
                          \o (IF project.snfoundry_manifest THEN <<>>
                              ELSE <<"write snfoundry.toml">>)]
    /\ UNCHANGED <<runVars, tree>>

\* add_dependencies_to_scarb_toml, update_config, extend_gitignore,
\* overwrite_or_copy_files.
Populate ==
    /\ project.pc = "populate"
    /\ \E io_ok \in BOOLEAN :
         project' =
           IF ~io_ok
           THEN [Returned(IoErr) EXCEPT !.effects = Append(@, "scarb add snforge_std")]
           ELSE [project EXCEPT
                    !.pc = "fetch",
                    !.effects =
                        @ \o <<"scarb add snforge_std">>
                          \o (IF project.template = "BalanceContract"
                              THEN <<"scarb add starknet">> ELSE <<>>)
                          \o <<"write Scarb.toml", "append .gitignore", "copy template">>]
    /\ UNCHANGED <<runVars, tree>>

\* scarb fetch, Ok(()).
ScarbFetch ==
    /\ project.pc = "fetch"
    /\ \E io_ok \in BOOLEAN :
         project' = [Returned(IF io_ok THEN "ok" ELSE "Failed to fetch created project")
                        EXCEPT !.effects = Append(@, "scarb fetch")]
    /\ UNCHANGED <<runVars, tree>>

NextNew ==
    \/ CheckPath \/ InferName \/ CreateDirAll \/ ScarbInit
    \/ WriteManifests \/ Populate \/ ScarbFetch
SpecNew == InitNew /\ [][NextNew]_vars

\* Number of calls of a trace: the call and all calls nested in it.
RECURSIVE CallCount(_), CallCountAll(_)
CallCount(trace) == 1 + CallCountAll(trace.trace_info.nested_calls)
CallCountAll(nested_calls) ==
    IF nested_calls = <<>> THEN 0
    ELSE CallCount(Head(nested_calls)) + CallCountAll(Tail(nested_calls))

\* C23: rendering a Trace keeps the builder balanced. While the trace is
\* serialized the builder's level is one (the root Node above the guards)
\* plus the child Nodes begun and not yet dropped, and never below zero;
\* when into_string builds the tree each of the two guards has exactly one
\* child, so that extract_guard does not panic; at the end every child Node
\* begun has been ended once, one per call of the trace, and the level is zero.
C23_BuilderBalanced ==
    /\ tree.builder.level >= 0
    /\ tree.stage # "panic"
    /\ tree.stage = "serialize"
         => /\ tree.ended <= tree.begun
            /\ tree.builder.level = 1 + tree.begun - tree.ended
    /\ (tree.stage = "serialize" /\ tree.todo = <<>>)
         => LET built == build(tree.builder) IN
            /\ built.text = Guard
            /\ Len(built.children) = 1
            /\ built.children[1].text = Guard
            /\ Len(built.children[1].children) = 1
    /\ tree.stage = "done"
         => /\ tree.begun = CallCount(tree.trace)
            /\ tree.ended = tree.begun
            /\ tree.builder.level = 0

\* C23 witness: a trace three calls deep, with two nested calls in its top
\* call, has been rendered.
C23_Witness ==
    /\ tree.stage = "done"
    /\ Len(tree.trace.trace_info.nested_calls) = 2
    /\ tree.trace.trace_info.nested_calls[1].trace_info.nested_calls # <<>>
    /\ tree.ended >= 4

\* The call tree of a trace: a node with the selector, below it the six
\* leaves in order and then the call trees of the nested calls in order.
RECURSIVE CallTree(_)
CallTree(trace) ==
    LET info == trace.trace_info IN
    Item(display("selector", trace.selector),
         << Item(display("entry_point_type", info.entry_point_type), <<>>),
            Item(display("calldata", info.calldata), <<>>),
            Item(display("storage_address", info.storage_address), <<>>),
            Item(display("caller_address", info.caller_address), <<>>),
            Item(display("call_type", info.call_type), <<>>),
            Item(display("call_result", info.call_result), <<>>) >>
         \o [i \in 1..Len(info.nested_calls) |-> CallTree(info.nested_calls[i])])

\* C24: rendering ends with a tree, and it is the call tree of the trace: one
\* node per call with its selector, the six leaves in order, then one
\* subtree per nested call in order, each below its own parent's node.
C24_TreeIsCallTree ==
    tree.stage \in {"done", "panic"}
        => tree.stage = "done" /\ tree.out = CallTree(tree.trace)

\* C24 witness: a rendered trace whose first nested call has a nested call
\* of its own and is followed by a second nested call with another selector.
C24_Witness ==
    /\ tree.stage = "done"
    /\ Len(tree.trace.trace_info.nested_calls) = 2
    /\ tree.trace.trace_info.nested_calls[1].trace_info.nested_calls # <<>>
    /\ tree.trace.trace_info.nested_calls[1].selector
         # tree.trace.trace_info.nested_calls[2].selector
    /\ Len(tree.out.children) = 8
    /\ Len(tree.out.children[7].children) >= 7

\* C29: new() without the overwrite flag on a path that is a directory with
\* entries, or that is there and cannot be read as a directory, returns the
\* non-empty-directory error with nothing done: no directory created, no
\* scarb command run, no file written. With the flag, or on an absent or
\* empty directory, that error is not returned.
C29_NonEmptyFailsFirst ==
    /\ (/\ project.pc \notin {"none", "check"}
        /\ ~project.overwrite
        /\ project.path \in {"nonempty_dir", "file", "unreadable_dir"})
         => /\ project.pc = "returned"
            /\ project.result = NonEmptyDirErr
            /\ project.effects = <<>>
    /\ (project.overwrite \/ project.path \in {"absent", "empty_dir"})
         => project.result # NonEmptyDirErr
    /\ project.result = NonEmptyDirErr => project.effects = <<>>

\* C29 witness: new() without the flag has returned the error on a directory
\* with entries and no Scarb.toml, where it would have run scarb init.
C29_Witness ==
    /\ project.pc = "returned"
    /\ project.result = NonEmptyDirErr
    /\ ~project.overwrite
    /\ project.path = "nonempty_dir"
    /\ ~project.scarb_manifest
    /\ project.effects = <<>>

====
